---- MODULE Spec2Model ----
(***************************************************************************)
(* Model of ai_data_science_team/tools/regex.py: five stateless text       *)
(* transforms.  Texts are sequences of one-character strings, so that the  *)
(* regular expressions, strip(), split() and join() of the source are      *)
(* computed character by character.  Each function has its own             *)
(* specification: Init draws the arguments from bounded sets and the       *)
(* action applies the function; `returned` records the successive return   *)
(* values (the caller feeds a result back in to apply a function twice).   *)
(***************************************************************************)
EXTENDS Integers, Sequences, FiniteSets, TLC

VARIABLES code_text, agent_name, raw_text, heading, report_dict, code_lang,
          time_created, returned

vars == <<code_text, agent_name, raw_text, heading, report_dict, code_lang,
          time_created, returned>>

(* ---------------------------- bounds ----------------------------------- *)
MaxLines == 4
MaxCalls == 2

(* ------------------------- text primitives ----------------------------- *)
\* A string literal as a sequence of characters.
Str(s) == [i \in 1..Len(s) |-> SubSeq(s, i, i)]

\* Characters matched by \s and removed by str.strip().
Whitespace == {" ", "\n", "\t"}

\* Characters matched by \w.
WordChars ==
  {"a","b","c","d","e","f","g","h","i","j","k","l","m","n","o","p","q","r",
   "s","t","u","v","w","x","y","z",
   "A","B","C","D","E","F","G","H","I","J","K","L","M","N","O","P","Q","R",
   "S","T","U","V","W","X","Y","Z",
   "0","1","2","3","4","5","6","7","8","9","_"}

\* True iff the literal w occurs in s at position i.
At(s, i, w) == /\ i >= 1
               /\ i + Len(w) - 1 <= Len(s)
               /\ SubSeq(s, i, i + Len(w) - 1) = w

\* First position >= i that is past the end of s or holds a character
\* outside `set` (the end of a greedy run of characters of `set`).
RunEnd(s, i, set) ==
  CHOOSE j \in i..(Len(s) + 1) :
    /\ \A k \in i..(j - 1) : s[k] \in set
    /\ (j = Len(s) + 1 \/ s[j] \notin set)

WsEnd(s, i) == RunEnd(s, i, Whitespace)

\* End of a greedy run of [^\n] (also of `.`).
LineEnd(s, i) ==
  CHOOSE j \in i..(Len(s) + 1) :
    /\ \A k \in i..(j - 1) : s[k] # "\n"
    /\ (j = Len(s) + 1 \/ s[j] = "\n")

\* End of a greedy run of \S.
NonWsEnd(s, i) ==
  CHOOSE j \in i..(Len(s) + 1) :
    /\ \A k \in i..(j - 1) : s[k] \notin Whitespace
    /\ (j = Len(s) + 1 \/ s[j] \in Whitespace)

Max(S) == CHOOSE x \in S : \A y \in S : y <= x
Min(S) == CHOOSE x \in S : \A y \in S : x <= y

\* str.strip()
Strip(s) ==
  LET keep == {i \in 1..Len(s) : s[i] \notin Whitespace}
  IN  IF keep = {} THEN <<>> ELSE SubSeq(s, Min(keep), Max(keep))

\* str.split('\n')
RECURSIVE Split(_)
Split(s) ==
  LET e == LineEnd(s, 1)
  IN  IF e = Len(s) + 1 THEN <<s>>
      ELSE <<SubSeq(s, 1, e - 1)>> \o Split(SubSeq(s, e + 1, Len(s)))

\* sep.join(parts)
RECURSIVE Join(_, _)
Join(sep, parts) ==
  IF parts = <<>> THEN <<>>
  ELSE IF Len(parts) = 1 THEN parts[1]
  ELSE parts[1] \o sep \o Join(sep, Tail(parts))

(* ------------------ relocate_imports_inside_function ------------------- *)
\* \s+[^\n]+\s*$ from position a: <<e, h>> where the statement ends before e
\* and the whole match before h, or <<>> when it does not match.  \s+ is
\* greedy but gives characters back until [^\n]+ can start; the final \s* is
\* greedy but gives characters back until $ holds (end of text or before a
\* newline).
ImportTail(s, a) ==
  LET b     == WsEnd(s, a)
      start == {j \in (a + 1)..b : j <= Len(s) /\ s[j] # "\n"}
  IN  IF start = {} THEN <<>>
      ELSE LET e == LineEnd(s, Max(start))
               g == WsEnd(s, e)
               h == Max({j \in e..g : j = Len(s) + 1 \/ s[j] = "\n"})
           IN  <<e, h>>

\* (import\s+[^\n]+|from\s+\S+\s+import\s+[^\n]+)\s*$ from position q.
ImportStatement(s, q) ==
  IF At(s, q, Str("import")) THEN ImportTail(s, q + 6)
  ELSE IF At(s, q, Str("from")) THEN
    LET a == q + 4
        b == WsEnd(s, a)
        c == NonWsEnd(s, b)
        d == WsEnd(s, c)
    IN  IF b = a \/ c = b \/ d = c \/ ~At(s, d, Str("import")) THEN <<>>
        ELSE ImportTail(s, d + 6)
  ELSE <<>>

\* import_pattern tried at position p (re.MULTILINE): <<p, q, e, h>> where
\* the match is s[p..h-1] and group 1 is s[q..e-1], or <<>>.
import_pattern(s, p) ==
  IF ~(p = 1 \/ s[p - 1] = "\n") THEN <<>>
  ELSE LET q == WsEnd(s, p)
           r == ImportStatement(s, q)
       IN  IF r = <<>> THEN <<>> ELSE <<p, q, r[1], r[2]>>

\* The successive non-overlapping matches of import_pattern from position p.
RECURSIVE ImportMatches(_, _)
ImportMatches(s, p) ==
  IF p > Len(s) + 1 THEN <<>>
  ELSE LET m == import_pattern(s, p)
       IN  IF m # <<>> THEN <<m>> \o ImportMatches(s, m[4])
           ELSE ImportMatches(s, p + 1)

\* imports = re.findall(import_pattern, code_text, re.MULTILINE)
imports(s) ==
  LET ms == ImportMatches(s, 1)
  IN  [i \in 1..Len(ms) |-> SubSeq(s, ms[i][2], ms[i][3] - 1)]

\* re.sub(import_pattern, '', code_text, flags=re.MULTILINE)
RECURSIVE SubEmpty(_, _, _)
SubEmpty(s, ms, pos) ==
  IF ms = <<>> THEN SubSeq(s, pos, Len(s))
  ELSE SubSeq(s, pos, ms[1][1] - 1) \o SubEmpty(s, Tail(ms), ms[1][4])

code_without_imports(s) == Strip(SubEmpty(s, ImportMatches(s, 1), 1))

\* (def\s+\w+\s*\(.*?\):) tried at position p: the position just after the
\* match, or 0.  The lazy .*? stops at the first "):" of the line.
function_pattern(s, p) ==
  IF ~At(s, p, Str("def")) THEN 0
  ELSE LET a == p + 3
           b == WsEnd(s, a)
           c == RunEnd(s, b, WordChars)
           d == WsEnd(s, c)
       IN  IF b = a \/ c = b \/ ~At(s, d, Str("(")) THEN 0
           ELSE LET close == {k \in (d + 1)..(LineEnd(s, d + 1) - 1) :
                                At(s, k, Str("):"))}
                IN  IF close = {} THEN 0 ELSE Min(close) + 2

\* match = re.search(function_pattern, code_without_imports); match.end()
\* as a count of characters, or -1 when there is no match.
function_start(cwi) ==
  LET hits == {p \in 1..Len(cwi) : function_pattern(cwi, p) # 0}
  IN  IF hits = {} THEN -1 ELSE function_pattern(cwi, Min(hits)) - 1

Indent == Str("\n    ")

\* A fallback that returns the import-stripped text instead of the input.
relocate_returns_stripped(s) ==
  LET cwi == code_without_imports(s)
      fs  == function_start(cwi)
  IN  IF fs # -1
      THEN SubSeq(cwi, 1, fs) \o Indent \o Join(Indent, imports(s))
             \o SubSeq(cwi, fs + 1, Len(cwi))
      ELSE cwi

relocate_imports_inside_function(s) ==
  LET cwi == code_without_imports(s)
      fs  == function_start(cwi)
  IN  IF fs # -1
      THEN SubSeq(cwi, 1, fs) \o Indent \o Join(Indent, imports(s))
             \o SubSeq(cwi, fs + 1, Len(cwi))
      ELSE s

(* -------------------------- format_agent_name -------------------------- *)
LowerLetters == Str("abcdefghijklmnopqrstuvwxyz")
UpperLetters == Str("ABCDEFGHIJKLMNOPQRSTUVWXYZ")

\* str.upper() and str.lower(), one character at a time.
UpperChar(c) ==
  IF \E i \in 1..26 : LowerLetters[i] = c
  THEN UpperLetters[CHOOSE i \in 1..26 : LowerLetters[i] = c] ELSE c

LowerChar(c) ==
  IF \E i \in 1..26 : UpperLetters[i] = c
  THEN LowerLetters[CHOOSE i \in 1..26 : UpperLetters[i] = c] ELSE c

Upper(s) == [i \in 1..Len(s) |-> UpperChar(s[i])]
Lower(s) == [i \in 1..Len(s) |-> LowerChar(s[i])]

\* str.replace(old, new) for one-character old and new.
Replace(s, old, new) == [i \in 1..Len(s) |-> IF s[i] = old THEN new ELSE s[i]]

\* The name decorated without being trimmed first.
format_agent_name_untrimmed(name) ==
  LET formatted_name == Upper(Replace(name, "_", " "))
  IN  Str("---") \o formatted_name \o Str("----")

format_agent_name(name) ==
  LET formatted_name == Upper(Replace(Strip(name), "_", " "))
  IN  Str("---") \o formatted_name \o Str("----")

(* ------------------------- add_comments_to_top ------------------------- *)
Digit(n) == Str("0123456789")[n + 1]
Pad2(n) == <<Digit(n \div 10), Digit(n % 10)>>
Pad4(n) == Pad2(n \div 100) \o Pad2(n % 100)

\* datetime.strftime('%Y-%m-%d %H:%M:%S') of a clock reading.
strftime(now) ==
  Pad4(now.year) \o Str("-") \o Pad2(now.month) \o Str("-") \o Pad2(now.day)
    \o Str(" ") \o Pad2(now.hour) \o Str(":") \o Pad2(now.minute)
    \o Str(":") \o Pad2(now.second)

Disclaimer ==
  Str("# Disclaimer: This function was generated by AI. Please review before using.")

\* The header without the newline that ends the time line.
header_comments_no_newline(name, now) ==
  << Disclaimer,
     Str("# Agent Name: ") \o name,
     Str("# Time Created: ") \o strftime(now),
     <<>> >>

header_comments(name, now) ==
  << Disclaimer,
     Str("# Agent Name: ") \o name,
     Str("# Time Created: ") \o strftime(now) \o Str("\n"),
     <<>> >>

add_comments_to_top(code, name, now) ==
  LET header_block == Join(Str("\n"), header_comments(name, now))
  IN  header_block \o code

(* ----------------------- format_recommended_steps ---------------------- *)
\* while lines and not lines[0].strip(): lines.pop(0)
RECURSIVE PopBlankLines(_)
PopBlankLines(lines) ==
  IF lines # <<>> /\ Strip(lines[1]) = <<>>
  THEN PopBlankLines(Tail(lines)) ELSE lines

\* The loop when a repeated heading is not skipped.
RECURSIVE DedupLoop_keep_duplicates(_, _, _, _)
DedupLoop_keep_duplicates(lines, head, seen_heading, new_lines) ==
  IF lines = <<>>
  THEN [new_lines |-> new_lines, seen_heading |-> seen_heading]
  ELSE LET line == lines[1]
       IN  DedupLoop_keep_duplicates(Tail(lines), head,
                                     seen_heading \/ Strip(line) = head,
                                     Append(new_lines, line))

\* The loop when each kept line is appended trimmed.
RECURSIVE DedupLoop_trim_lines(_, _, _, _)
DedupLoop_trim_lines(lines, head, seen_heading, new_lines) ==
  IF lines = <<>>
  THEN [new_lines |-> new_lines, seen_heading |-> seen_heading]
  ELSE LET line == lines[1]
       IN  IF Strip(line) = head
           THEN IF seen_heading
                THEN DedupLoop_trim_lines(Tail(lines), head, seen_heading,
                                          new_lines)
                ELSE DedupLoop_trim_lines(Tail(lines), head, TRUE,
                                          Append(new_lines, Strip(line)))
           ELSE DedupLoop_trim_lines(Tail(lines), head, seen_heading,
                                     Append(new_lines, Strip(line)))

\* The loop over lines: the lines appended to new_lines and the final
\* seen_heading, from the lines still to visit.
RECURSIVE DedupLoop(_, _, _, _)
DedupLoop(lines, head, seen_heading, new_lines) ==
  IF lines = <<>>
  THEN [new_lines |-> new_lines, seen_heading |-> seen_heading]
  ELSE LET line == lines[1]
       IN  IF Strip(line) = head
           THEN IF seen_heading
                THEN DedupLoop(Tail(lines), head, seen_heading, new_lines)
                ELSE DedupLoop(Tail(lines), head, TRUE,
                               Append(new_lines, line))
           ELSE DedupLoop(Tail(lines), head, seen_heading,
                          Append(new_lines, line))

DefaultHeading == Str("# Recommended Steps:")

format_recommended_steps(raw, head) ==
  LET lines == PopBlankLines(Split(Strip(raw)))
      loop  == DedupLoop(lines, head, FALSE, <<>>)
      new_lines == IF ~loop.seen_heading
                   THEN <<head>> \o loop.new_lines ELSE loop.new_lines
  IN  Join(Str("\n"), new_lines)

(* -------------------------- get_generic_summary ------------------------ *)
TitleKey == Str("report_title")

\* The backquote character (a TLA+ string cannot hold it, so it is named)
\* and the three of them that open and close a fenced block.
Backquote == "BACKQUOTE"
Fence == <<Backquote, Backquote, Backquote>>

\* str(value): report values are texts or non-negative integers.
RECURSIVE Decimal(_)
Decimal(n) == IF n < 10 THEN <<Digit(n)>>
              ELSE Append(Decimal(n \div 10), Digit(n % 10))

str(value) == IF value.type = "int" THEN Decimal(value.val) ELSE value.val

\* report_dict.get("report_title", "Untitled Report")
GetTitle(report) ==
  IF \E i \in 1..Len(report) : report[i].key = TitleKey
  THEN (report[CHOOSE i \in 1..Len(report) : report[i].key = TitleKey]).value
  ELSE [type |-> "str", val |-> Str("Untitled Report")]

\* The test made on the key as given, not on its lower-case form.
IsCodeKey_case_sensitive(key) ==
  \/ \E i \in 1..Len(key) : At(key, i, Str("code"))
  \/ \E i \in 1..Len(key) : At(key, i, Str("function"))

\* "code" in key_lower or "function" in key_lower
IsCodeKey(key) ==
  LET key_lower == Lower(key)
  IN  \/ \E i \in 1..Len(key_lower) : At(key_lower, i, Str("code"))
      \/ \E i \in 1..Len(key_lower) : At(key_lower, i, Str("function"))

\* The loop when the title key is not skipped.
RECURSIVE SummaryLoop_no_skip(_, _)
SummaryLoop_no_skip(items, lang) ==
  IF items = <<>> THEN <<>>
  ELSE LET key   == items[1].key
           value == items[1].value
       IN  IF IsCodeKey(key)
           THEN << Str("\n## ") \o Upper(format_agent_name(key)),
                   Fence \o lang \o Str("\n") \o str(value) \o Str("\n")
                     \o Fence >>
                  \o SummaryLoop_no_skip(Tail(items), lang)
           ELSE << Str("\n## ") \o Upper(format_agent_name(key)),
                   str(value) >>
                  \o SummaryLoop_no_skip(Tail(items), lang)

\* The loop over report_dict.items(): the lines it appends.
RECURSIVE SummaryLoop(_, _)
SummaryLoop(items, lang) ==
  IF items = <<>> THEN <<>>
  ELSE LET key   == items[1].key
           value == items[1].value
       IN  IF key = TitleKey THEN SummaryLoop(Tail(items), lang)
           ELSE IF IsCodeKey(key)
           THEN << Str("\n## ") \o Upper(format_agent_name(key)),
                   Fence \o lang \o Str("\n") \o str(value) \o Str("\n")
                     \o Fence >>
                  \o SummaryLoop(Tail(items), lang)
           ELSE << Str("\n## ") \o Upper(format_agent_name(key)),
                   str(value) >>
                  \o SummaryLoop(Tail(items), lang)

get_generic_summary(report, lang) ==
  LET title == GetTitle(report)
      lines == <<Str("# ") \o str(title)>> \o SummaryLoop(report, lang)
  IN  Join(Str("\n"), lines)

(* ------------------------------ inputs --------------------------------- *)
\* Lines a code text is assembled from (the last one is a signature that
\* spans two lines).
CodeLines ==
  { Str("import os"), Str("from a import b"), Str("def f():"),
    Str("def g(x):"), Str("    pass"), <<>>, Str("def h(\n  b):") }

RECURSIVE SeqsUpTo(_, _)
SeqsUpTo(S, n) ==
  IF n = 0 THEN {<<>>}
  ELSE LET shorter == SeqsUpTo(S, n - 1)
       IN  shorter \cup {Append(q, x) : q \in shorter, x \in S}

CodeTexts == {Join(Str("\n"), ls) : ls \in SeqsUpTo(CodeLines, MaxLines)}

NoText == <<>>

(* -------------------- specification: import relocator ------------------ *)
InitRelocate ==
  /\ code_text \in CodeTexts
  /\ agent_name = NoText
  /\ raw_text = NoText
  /\ heading = NoText
  /\ report_dict = <<>>
  /\ code_lang = NoText
  /\ time_created = <<>>
  /\ returned = <<>>

\* The argument of the next call: the caller's text, then the last result.
Argument(first) == IF returned = <<>> THEN first ELSE returned[Len(returned)]

CallRelocate ==
  /\ Len(returned) < MaxCalls
  /\ returned' = Append(returned,
                        relocate_imports_inside_function(Argument(code_text)))
  /\ UNCHANGED <<code_text, agent_name, raw_text, heading, report_dict,
                 code_lang, time_created>>

NextRelocate == CallRelocate

SpecRelocate == InitRelocate /\ [][NextRelocate]_vars


(* ------------------- properties: import relocator ---------------------- *)
\* True iff the literal w occurs somewhere in s.
Contains(s, w) == \E i \in 1..Len(s) : At(s, i, w)

\* Number of newlines in s.
Newlines(s) == Cardinality({i \in 1..Len(s) : s[i] = "\n"})

\* The line of the import-stripped text that holds the first signature.
FirstDefLine(cwi) == 1 + Newlines(SubSeq(cwi, 1, function_start(cwi)))

\* The import-stripped lines with one line per collected import, indented by
\* four spaces, placed right after line d.
WithImportsAfter(ls, d, imps) ==
  SubSeq(ls, 1, d)
    \o [i \in 1..Len(imps) |-> Str("    ") \o imps[i]]
    \o SubSeq(ls, d + 1, Len(ls))

\* C1: when the stripped text holds a function signature, the output is the
\* stripped text plus exactly k lines, one per collected import (four spaces
\* and the statement, in input order), right after the first definition
\* line, for every k >= 0.
C1_ImportsAfterFirstDef ==
  (Len(returned) >= 1 /\ function_start(code_without_imports(code_text)) # -1)
    => LET cwi == code_without_imports(code_text)
       IN  Split(returned[1]) =
             WithImportsAfter(Split(cwi), FirstDefLine(cwi), imports(code_text))

\* C2: on a text with exactly one single-line function definition, a second
\* application returns what the first returned.
C2_RelocateIdempotent ==
  (/\ Len(returned) >= 2
   /\ Cardinality({p \in 1..Len(code_text) :
                     function_pattern(code_text, p) # 0}) = 1)
    => returned[2] = returned[1]

\* C3: when no function signature matches, the input is returned character
\* for character (imports kept, nothing trimmed).
C3_FallbackReturnsInput ==
  (Len(returned) >= 1 /\ function_start(code_without_imports(code_text)) = -1)
    => returned[1] = code_text

\* A fallback call on a text with imports, outer whitespace and a signature
\* spanning two lines.
C3_Witness ==
  /\ Len(returned) >= 1
  /\ function_start(code_without_imports(code_text)) = -1
  /\ imports(code_text) # <<>>
  /\ Contains(code_text, Str("def h(\n"))
  /\ Strip(code_text) # code_text
  /\ returned[1] = code_text

(* ---------------------- specification: name formatter ------------------ *)
MaxNameLen == 3

NameChars == {"a", "B", "_", " ", "\n", "-"}

RECURSIVE TextsUpTo(_, _)
TextsUpTo(chars, n) ==
  IF n = 0 THEN {<<>>}
  ELSE LET shorter == TextsUpTo(chars, n - 1)
       IN  shorter \cup {Append(q, c) : q \in shorter, c \in chars}

AgentNames == TextsUpTo(NameChars, MaxNameLen) \cup {Str("data_wrangler")}

InitName ==
  /\ agent_name \in AgentNames
  /\ code_text = NoText
  /\ raw_text = NoText
  /\ heading = NoText
  /\ report_dict = <<>>
  /\ code_lang = NoText
  /\ time_created = <<>>
  /\ returned = <<>>

CallFormatName ==
  /\ returned = <<>>
  /\ returned' = <<format_agent_name(agent_name)>>
  /\ UNCHANGED <<code_text, agent_name, raw_text, heading, report_dict,
                 code_lang, time_created>>

NextName == CallFormatName

SpecName == InitName /\ [][NextName]_vars

\* C9: the result is three hyphens, the trimmed name with each underscore
\* turned into a space and each letter into its capital, then four hyphens;
\* it holds no underscore and no lowercase letter, and "data_wrangler"
\* gives "---DATA WRANGLER----".
C9_FormatName ==
  (Len(returned) = 1) =>
    LET out  == returned[1]
        name == Strip(agent_name)
        n    == Len(name)
    IN  /\ Len(out) = n + 7
        /\ \A i \in 1..3 : out[i] = "-"
        /\ \A i \in (n + 4)..(n + 7) : out[i] = "-"
        /\ \A i \in 1..n :
             \/ name[i] = "_" /\ out[i + 3] = " "
             \/ \E j \in 1..26 : /\ name[i] = LowerLetters[j]
                                 /\ out[i + 3] = UpperLetters[j]
             \/ /\ name[i] # "_"
                /\ \A j \in 1..26 : name[i] # LowerLetters[j]
                /\ out[i + 3] = name[i]
        /\ \A i \in 1..Len(out) :
             out[i] # "_" /\ ~(\E j \in 1..26 : LowerLetters[j] = out[i])
        /\ (agent_name = Str("data_wrangler")
              => out = Str("---DATA WRANGLER----"))

\* A call on a name with outer whitespace, an underscore and a small letter.
C9_Witness ==
  /\ Len(returned) = 1
  /\ agent_name = Str(" a_")
  /\ returned[1] = Str("---A ----")

(* --------------------- specification: header annotator ----------------- *)
HeaderCodeTexts ==
  { <<>>, Str("x = 1"), Str("def f():\n    pass\n"), Str("\n\nimport os"),
    Str("# Agent Name: x\n") }

HeaderAgentNames == { Str("data_wrangler"), <<>>, Str("a b ") }

Clock ==
  [year : {2024, 9999}, month : {1, 12}, day : {9, 31},
   hour : {0, 23}, minute : {5}, second : {59}]

InitHeader ==
  /\ code_text \in HeaderCodeTexts
  /\ agent_name \in HeaderAgentNames
  /\ raw_text = NoText
  /\ heading = NoText
  /\ report_dict = <<>>
  /\ code_lang = NoText
  /\ time_created = <<>>
  /\ returned = <<>>

\* datetime.now() may return any clock reading.
CallAddComments ==
  /\ returned = <<>>
  /\ \E now \in Clock :
       /\ time_created' = strftime(now)
       /\ returned' = <<add_comments_to_top(code_text, agent_name, now)>>
  /\ UNCHANGED <<code_text, agent_name, raw_text, heading, report_dict,
                 code_lang>>

NextHeader == CallAddComments

SpecHeader == InitHeader /\ [][NextHeader]_vars

\* What is left of s after its first n lines.
RECURSIVE DropLines(_, _)
DropLines(s, n) ==
  IF n = 0 THEN s
  ELSE LET e == LineEnd(s, 1)
       IN  IF e = Len(s) + 1 THEN <<>>
           ELSE DropLines(SubSeq(s, e + 1, Len(s)), n - 1)

Digits == {"0", "1", "2", "3", "4", "5", "6", "7", "8", "9"}

\* YYYY-MM-DD HH:MM:SS
IsTimestamp(s) ==
  /\ Len(s) = 19
  /\ \A i \in 1..19 :
       IF i \in {5, 8} THEN s[i] = "-"
       ELSE IF i = 11 THEN s[i] = " "
       ELSE IF i \in {14, 17} THEN s[i] = ":"
       ELSE s[i] \in Digits

\* C8: the output is four header lines (disclaimer, agent name, time
\* created, one empty line) followed by the code, so that removing the first
\* four lines gives back the code.
C8_HeaderThenCode ==
  (Len(returned) = 1) =>
    LET out == returned[1]
        ls  == Split(out)
    IN  /\ Len(ls) >= 5
        /\ ls[1] = Disclaimer
        /\ ls[2] = Str("# Agent Name: ") \o agent_name
        /\ SubSeq(ls[3], 1, 16) = Str("# Time Created: ")
        /\ IsTimestamp(SubSeq(ls[3], 17, Len(ls[3])))
        /\ ls[4] = <<>>
        /\ DropLines(out, 4) = code_text
        /\ Len(out) = Len(Disclaimer) + Len(agent_name) + Len(code_text) + 53

\* A call on a code text of several lines that ends with a newline.
C8_Witness ==
  /\ Len(returned) = 1
  /\ code_text = Str("def f():\n    pass\n")
  /\ agent_name = Str("data_wrangler")
  /\ time_created = Str("9999-12-31 23:05:59")
  /\ DropLines(returned[1], 4) = code_text

(* -------------------- specification: step-list normalizer -------------- *)
MaxStepLines == 4

StepLines ==
  { DefaultHeading, Str("  # Recommended Steps: "), Str("1. a  "),
    Str("  b"), <<>>, Str("   ") }

RawTexts == {Join(Str("\n"), ls) : ls \in SeqsUpTo(StepLines, MaxStepLines)}

\* The default, the empty heading and a heading with a leading blank.
Headings == { DefaultHeading, <<>>, Str(" # Recommended Steps:") }

InitSteps ==
  /\ raw_text \in RawTexts
  /\ heading \in Headings
  /\ code_text = NoText
  /\ agent_name = NoText
  /\ report_dict = <<>>
  /\ code_lang = NoText
  /\ time_created = <<>>
  /\ returned = <<>>

CallFormatSteps ==
  /\ Len(returned) < MaxCalls
  /\ returned' = Append(returned,
                        format_recommended_steps(Argument(raw_text), heading))
  /\ UNCHANGED <<code_text, agent_name, raw_text, heading, report_dict,
                 code_lang, time_created>>

NextSteps == CallFormatSteps

SpecSteps == InitSteps /\ [][NextSteps]_vars

IsHeading(line) == Strip(line) = heading
IsNotHeading(line) == Strip(line) # heading

\* A heading that is one line without surrounding whitespace.
TrimmedHeading == Strip(heading) = heading /\ ~Contains(heading, Str("\n"))

\* The lines of the text once leading blank lines are discarded.
RECURSIVE AfterLeadingBlank(_)
AfterLeadingBlank(ls) ==
  IF ls # <<>> /\ \A i \in 1..Len(ls[1]) : ls[1][i] \in Whitespace
  THEN AfterLeadingBlank(Tail(ls)) ELSE ls

\* The lines of the text once the whole text is trimmed (none when the text
\* is all whitespace).
TrimmedLines(text) == IF Strip(text) = <<>> THEN <<>> ELSE Split(Strip(text))

HeadingPositions(ls) == {i \in 1..Len(ls) : IsHeading(ls[i])}

OneHeadingAtFirstPosition ==
  LET out == Split(returned[1])
      inp == AfterLeadingBlank(Split(raw_text))
  IN  /\ Cardinality(HeadingPositions(out)) = 1
      /\ IF HeadingPositions(inp) # {}
         THEN HeadingPositions(out) = {Min(HeadingPositions(inp))}
         ELSE out[1] = heading

\* C4 as stated: for every text and every heading the output has exactly
\* one heading line, at the position of the input's first one (counted after
\* the leading blank lines), or first when the input has none.
C4_OneHeading_Original == (Len(returned) >= 1) => OneHeadingAtFirstPosition

\* C4 amended: the same, for a non-empty heading that is a single line
\* without leading or trailing whitespace.
C4_OneHeading ==
  (Len(returned) >= 1 /\ TrimmedHeading /\ heading # <<>>)
    => OneHeadingAtFirstPosition

\* The default heading twice in the text, after a leading blank line.
C4_Witness ==
  /\ Len(returned) >= 1
  /\ heading = DefaultHeading
  /\ raw_text = Str("\n1. a  \n  # Recommended Steps: \n# Recommended Steps:")
  /\ returned[1] = Str("1. a  \n  # Recommended Steps: ")

\* C5 as stated: the output's non-heading lines are the input's non-heading
\* lines, only leading blank lines discarded, each unchanged and in order.
C5_OtherLinesKept_Original ==
  (Len(returned) >= 1) =>
    SelectSeq(Split(returned[1]), IsNotHeading)
      = SelectSeq(AfterLeadingBlank(Split(raw_text)), IsNotHeading)

\* C5 amended: for a heading that is a single line without surrounding
\* whitespace, the output's non-heading lines are the non-heading lines of
\* the input text trimmed as a whole (the first line loses its leading
\* whitespace, the last its trailing whitespace, leading and trailing blank
\* lines go), each otherwise unchanged and in order.
C5_OtherLinesKept ==
  (Len(returned) >= 1 /\ TrimmedHeading) =>
    SelectSeq(Split(returned[1]), IsNotHeading)
      = SelectSeq(TrimmedLines(raw_text), IsNotHeading)

\* A text whose first line is indented and whose last lines are blank, with
\* a duplicate heading in between.
C5_Witness ==
  /\ Len(returned) >= 1
  /\ heading = DefaultHeading
  /\ raw_text = Str("  b\n# Recommended Steps:\n1. a  \n   ")
  /\ returned[1] = Str("b\n# Recommended Steps:\n1. a")

\* C10: for a heading that is a single line without surrounding whitespace,
\* a second application returns what the first returned.
C10_StepsIdempotent ==
  (Len(returned) >= 2 /\ TrimmedHeading) => returned[2] = returned[1]

(* --------------------- specification: report summarizer ---------------- *)
MaxKeys == 3

ReportKeys ==
  { TitleKey, Str("my_code"), Str("A_Function"), Str("notes"), Str("co_de") }

ReportValues ==
  { [type |-> "str", val |-> Str("print(1)")],
    [type |-> "str", val |-> Str("a\n\nb")],
    [type |-> "int", val |-> 42] }

Items == [key : ReportKeys, value : ReportValues]

\* Ordered mappings: no key occurs twice.
Reports ==
  {r \in SeqsUpTo(Items, MaxKeys) :
     \A i, j \in 1..Len(r) : r[i].key = r[j].key => i = j}

InitSummary ==
  /\ report_dict \in Reports
  /\ code_lang \in {Str("python"), Str("r")}
  /\ code_text = NoText
  /\ agent_name = NoText
  /\ raw_text = NoText
  /\ heading = NoText
  /\ time_created = <<>>
  /\ returned = <<>>

CallSummary ==
  /\ returned = <<>>
  /\ returned' = <<get_generic_summary(report_dict, code_lang)>>
  /\ UNCHANGED <<code_text, agent_name, raw_text, heading, report_dict,
                 code_lang, time_created>>

NextSummary == CallSummary

SpecSummary == InitSummary /\ [][NextSummary]_vars

\* The pieces of s between occurrences of sep.
RECURSIVE SplitOn(_, _)
SplitOn(s, sep) ==
  LET hits == {i \in 1..Len(s) : At(s, i, sep)}
  IN  IF hits = {} THEN <<s>>
      ELSE <<SubSeq(s, 1, Min(hits) - 1)>>
             \o SplitOn(SubSeq(s, Min(hits) + Len(sep), Len(s)), sep)

\* The output cut at each level-2 heading: the title part, then one part per
\* section, each starting with the section's label.
Sections(out) == SplitOn(out, Str("\n\n## "))

IsOtherKey(item) == item.key # TitleKey
OtherItems == SelectSeq(report_dict, IsOtherKey)

\* The label of a key's section: the decorated key in capitals.
SectionLabel(key) ==
  Str("---") \o Upper(Replace(Strip(key), "_", " ")) \o Str("----")

\* C6: the output starts with the level-1 heading of the title value (or of
\* "Untitled Report"), then holds exactly one level-2 section per key other
\* than the title key, in the mapping's order; the title key has no section.
C6_TitleAndOrder ==
  (Len(returned) = 1) =>
    LET parts == Sections(returned[1])
        title == IF \E i \in 1..Len(report_dict) : report_dict[i].key = TitleKey
                 THEN str((report_dict[CHOOSE i \in 1..Len(report_dict) :
                                         report_dict[i].key = TitleKey]).value)
                 ELSE Str("Untitled Report")
    IN  /\ parts[1] = Str("# ") \o title
        /\ Len(parts) = 1 + Len(OtherItems)
        /\ \A i \in 1..Len(OtherItems) :
             LET label == SectionLabel(OtherItems[i].key) \o Str("\n")
             IN  SubSeq(parts[i + 1], 1, Len(label)) = label

\* A report whose title key comes between two other keys.
C6_Witness ==
  /\ Len(returned) = 1
  /\ Len(report_dict) = 3
  /\ report_dict[1].key = Str("notes")
  /\ report_dict[2].key = TitleKey
  /\ report_dict[2].value.val = Str("print(1)")
  /\ report_dict[3].key = Str("my_code")
  /\ Len(Sections(returned[1])) = 3

\* C7: a section's value is inside a fence tagged with the language exactly
\* when the key, in lower case, contains "code" or "function"; otherwise it
\* is the plain text of the value.
C7_CodeFence ==
  (Len(returned) = 1) =>
    LET parts == Sections(returned[1])
    IN  /\ Len(parts) = 1 + Len(OtherItems)
        /\ \A i \in 1..Len(OtherItems) :
             LET key   == OtherItems[i].key
                 text  == str(OtherItems[i].value)
                 label == SectionLabel(key) \o Str("\n")
                 body  == SubSeq(parts[i + 1], Len(label) + 1,
                                 Len(parts[i + 1]))
                 fenced == Fence \o code_lang \o Str("\n") \o text
                             \o Str("\n") \o Fence
             IN  IF Contains(Lower(key), Str("code"))
                    \/ Contains(Lower(key), Str("function"))
                 THEN body = fenced
                 ELSE body = text

\* A report with a key in capitals that holds "function", a key that holds
\* "code" and a key that holds neither, under the language "r".
C7_Witness ==
  /\ Len(returned) = 1
  /\ code_lang = Str("r")
  /\ Len(report_dict) = 3
  /\ report_dict[1].key = Str("A_Function")
  /\ report_dict[2].key = Str("co_de")
  /\ report_dict[3].key = Str("my_code")
  /\ report_dict[3].value.val = Str("print(1)")
====
